---- MODULE Spec2Model ----
(***************************************************************************)
(* Session / token lifecycle of the HMS front end: the auth slice of the   *)
(* Redux store (authSlice.ts), the header builder (getAuthHeaders), the    *)
(* axios instance with its request and response interceptors               *)
(* (healthDataSlice.ts, second half), the callers that log in, register,   *)
(* call protected endpoints and log out, and the app-start check.          *)
(*                                                                         *)
(* Execution is a single-threaded event loop: every action below is one    *)
(* run-to-completion piece of a handler, cut at the awaits of the source.  *)
(***************************************************************************)
EXTENDS Integers, FiniteSets, Sequences, Bags, TLC

\* ------------------------------------------------------------------ bounds
\* How many calls through the HTTP client can be outstanding at once.
NumReq == 2
\* Number of token pairs the backend issues in one behaviour.
MaxTok == 3
\* How many thunks of the data slices can be pending at once.
MaxPending == 2
\* Arrival numbers of realtime readings in use (more than the window of 20).
MaxArrivals == 22
\* Number of abnormal readings pushed by updateRealtimeData.
MaxAbnormal == 1
\* Length of the appointments list up to which appointments are booked.
MaxAppointments == 2

\* ------------------------------------------------------------- vocabulary
Null == "null"

\* The users known to the backend; role is fixed per user.
Users == {"u1", "u2"}

role(u) == IF u = "u1" THEN "patient" ELSE IF u = "u2" THEN "admin" ELSE Null

\* A token issued by the backend: serial number n and the user u it was
\* issued to.  The access and the refresh token of one pair share the serial.
NoToken == [n |-> 0, u |-> Null]

Token(n, u) == [n |-> n, u |-> u]

LoginUrl == "/auth/login"
RegisterUrl == "/auth/register"
ProtectedUrl == "/users"
Urls == {LoginUrl, RegisterUrl, ProtectedUrl}

\* The {message} body the backend sends with a status, when it sends one.
serverMessage(status) ==
    IF status = 401 THEN "Unauthorized" ELSE "Internal server error"
RequestFailed == "Request failed"
NoRefreshToken == "No refresh token available"
SessionExpired == "Session expired. Please log in again."
NoAccessToken == "No access token found"

\* What an attempt can come back with when it does not succeed: an HTTP
\* status with an optional {message} body, or no response at all (status 0:
\* timeout after 10 s, network error).
ErrorStatuses == {401, 500, 0}

ErrorResponses ==
    { [status |-> s, message |-> Null] : s \in ErrorStatuses }
      \cup { [status |-> s, message |-> serverMessage(s)] : s \in {401, 500} }

\* ------------------------------------------------------------------ state
VARIABLES
    auth,       \* state.auth of the store
    req,        \* the bag of calls made through the HTTP client and not yet
                \* handed back to their callers
    issued,     \* backend: number of token pairs issued so far
    boot,       \* position of the app start: "rehydrating" (the store is
                \* created, PersistGate waits), "start" (App is mounted),
                \* "pending" (checkAuth runs), "done"
    payload,    \* what the checkAuth payload creator returned
    persisted,  \* what redux-persist holds in localStorage under "root"
    healthData,     \* state.healthData of the store
    appointments,   \* state.appointments of the store
    thunks      \* the bag of thunks of these two slices that are pending

\* The session handling.
session == <<auth, req, issued, boot, payload, persisted>>

\* The slices that the session handling never touches, and their thunks.
slices == <<healthData, appointments, thunks>>

vars == <<session, slices>>

\* ------------------------------------------------------------- auth slice
initialState ==
    [ accessToken |-> NoToken, refreshToken |-> NoToken, isAuthenticated |-> FALSE,
      loading |-> FALSE, user |-> Null, userRole |-> Null, error |-> Null ]

\* reducer setAuthData; p = [accessToken, refreshToken (NoToken: not given), user]
\* Mutant: setAuthData that stores the payload's refresh token even when the
\* payload has none.
setAuthData_overwritesRefreshToken(s, p) ==
    [ s EXCEPT !.loading = FALSE, !.isAuthenticated = TRUE,
               !.accessToken = p.accessToken, !.refreshToken = p.refreshToken,
               !.user = p.user, !.userRole = role(p.user), !.error = Null ]

setAuthData(s, p) ==
    [ s EXCEPT !.loading = FALSE,
               !.isAuthenticated = TRUE,
               !.accessToken = p.accessToken,
               !.refreshToken = IF p.refreshToken # NoToken THEN p.refreshToken
                                ELSE s.refreshToken,
               !.user = p.user,
               !.userRole = role(p.user),
               !.error = Null ]

\* Mutant: setError that also drops the session.
setError_dropsSession(s, m) ==
    [ s EXCEPT !.loading = FALSE, !.error = m, !.isAuthenticated = FALSE,
               !.accessToken = NoToken ]

setError(s, m) == [ s EXCEPT !.loading = FALSE, !.error = m ]

clearError(s) == [ s EXCEPT !.error = Null ]

updateUser(s, u) == [ s EXCEPT !.user = u ]

\* Mutant: resetAuth that forgets the access token.
resetAuth_keepsAccessToken(s) ==
    [ s EXCEPT !.loading = FALSE, !.isAuthenticated = FALSE,
               !.refreshToken = NoToken, !.user = Null, !.userRole = Null,
               !.error = Null ]

\* Mutant: resetAuth that forgets the isAuthenticated flag.
resetAuth_keepsFlag(s) ==
    [ s EXCEPT !.loading = FALSE, !.accessToken = NoToken,
               !.refreshToken = NoToken, !.user = Null, !.userRole = Null,
               !.error = Null ]

resetAuth(s) ==
    [ s EXCEPT !.loading = FALSE, !.isAuthenticated = FALSE, !.accessToken = NoToken,
               !.refreshToken = NoToken, !.user = Null, !.userRole = Null,
               !.error = Null ]

checkAuthPending(s) == [ s EXCEPT !.loading = TRUE, !.error = Null ]

\* Mutant: checkAuth.fulfilled that does not restore the refresh token.
checkAuthFulfilled_dropsRefreshToken(s, p) ==
    [ s EXCEPT !.loading = FALSE, !.isAuthenticated = TRUE,
               !.accessToken = p.accessToken, !.refreshToken = NoToken,
               !.user = p.user, !.userRole = role(p.user) ]

checkAuthFulfilled(s, p) ==
    [ s EXCEPT !.loading = FALSE, !.isAuthenticated = TRUE,
               !.accessToken = p.accessToken, !.refreshToken = p.refreshToken,
               !.user = p.user, !.userRole = role(p.user) ]

checkAuthRejected(s, m) ==
    [ s EXCEPT !.loading = FALSE, !.isAuthenticated = FALSE, !.accessToken = NoToken,
               !.refreshToken = NoToken, !.user = Null, !.userRole = Null,
               !.error = m ]

\* payload creator of the checkAuth thunk
checkAuth(s) ==
    IF s.isAuthenticated /\ s.accessToken # NoToken /\ s.user # Null
    THEN [ ok |-> TRUE, accessToken |-> s.accessToken,
           refreshToken |-> s.refreshToken, user |-> s.user ]
    ELSE [ ok |-> FALSE, accessToken |-> NoToken, refreshToken |-> NoToken,
           user |-> Null ]

NoPayload == [ ok |-> FALSE, accessToken |-> NoToken, refreshToken |-> NoToken,
               user |-> Null ]

\* Mutant: a header builder whose result also depends on something outside
\* the store snapshot and the caller's headers (how many tokens were issued).
getAuthHeaders_readsElsewhere(s, additional) ==
    IF s.accessToken # NoToken /\ issued % 2 = 0 THEN s.accessToken
    ELSE additional

\* Mutant: a header builder that keeps an Authorization header already there.
getAuthHeaders_keepsExisting(s, additional) ==
    IF additional # NoToken THEN additional ELSE s.accessToken

\* Mutant: a header builder that never adds the bearer token.
getAuthHeaders_noBearer(s, additional) == additional

\* --------------------------------------------------------- header builder
\* getAuthHeaders, reduced to the Authorization header: the bearer token sent,
\* NoToken when the header is absent.  additional: the headers already there.
getAuthHeaders(s, additional) ==
    IF s.accessToken # NoToken THEN s.accessToken ELSE additional

\* -------------------------------------------------------------- HTTP client
\* A call made through the HTTP client.
\*   pc       "sent" (an attempt is on the wire), "refreshing" (the
\*            interceptor awaits POST auth/refresh), "resolved", "rejected"
\*   url      the request's url;  who: the user whose credentials a login or
\*            registration carries
\*   retry    originalRequest._retry
\*   authz    bearer token of the Authorization header in the request's
\*            config (NoToken: no such header); a failed attempt keeps it in
\*            originalRequest.headers until the replay merges over it
\*   rt       the refresh token sent in the refresh call
\*   data     the token pair in a login / registration response
\*   msg      message of the error the call rejected with
\*   sends, refreshCalls   history: attempts put on the wire, refresh calls made
\*   loggedOut             history: a logout happened while the call's refresh
\*                         call was in flight
NewReq ==
    [ pc |-> "sent", url |-> Null, who |-> Null, retry |-> FALSE, authz |-> NoToken,
      rt |-> NoToken, data |-> NoToken, msg |-> Null, sends |-> 0,
      refreshCalls |-> 0, loggedOut |-> FALSE ]

\* A settled call keeps only what its caller gets: the response, or the error.
Resolved(url, data) == [ NewReq EXCEPT !.pc = "resolved", !.url = url, !.data = data ]

Rejected(url, m) ==
    [ NewReq EXCEPT !.pc = "rejected", !.url = url, !.msg = m ]

\* error.response?.data?.message || "Request failed"
\* Mutant: an error message without the generic fallback.
errorMessage_noFallback(resp) == IF resp.status # 0 THEN resp.message ELSE Null

errorMessage(resp) ==
    IF resp.status # 0 /\ resp.message # Null THEN resp.message ELSE RequestFailed

\* Mutants of the guard: without the login exemption, without the retry flag,
\* without the status test.
shouldRefresh_ignoresLogin(q, resp) == resp.status = 401 /\ ~q.retry

shouldRefresh_ignoresRetry(q, resp) == resp.status = 401 /\ q.url # LoginUrl

shouldRefresh_anyStatus(q, resp) == ~q.retry /\ q.url # LoginUrl

\* The guard of the response interceptor's refresh branch.
shouldRefresh(q, resp) ==
    resp.status = 401 /\ ~q.retry /\ q.url # LoginUrl

\* ---------------------------------------------------------- healthData slice
\* The series of state.healthData.realtimeData.
Types == {"heartRate", "bloodPressure", "bloodOxygen", "temperature"}

\* The number of points updateRealtimeData keeps in a series.
RealtimeWindow == 20

\* A HealthDataPoint: its type, its place n in the order of arrival, and
\* whether the reading is abnormal.
Point(type, n, isAbnormal) == [ type |-> type, n |-> n, isAbnormal |-> isAbnormal ]

healthDataInitialState ==
    [ realtimeData |-> [ t \in Types |-> <<>> ],
      historicalData |-> <<>>,
      abnormalReadings |-> <<>>,
      loading |-> FALSE,
      error |-> Null ]

\* series.push(data); if (series.length > 20) series.shift()
pushPoint(series, point) ==
    LET pushed == Append(series, point)
    IN IF Len(pushed) > RealtimeWindow THEN Tail(pushed) ELSE pushed

updateRealtimeData(s, p) ==
    LET pushed == IF p.type \in Types
                  THEN [s EXCEPT !.realtimeData[p.type] = pushPoint(@, p.data)]
                  ELSE s
    IN IF p.data.isAbnormal
       THEN [pushed EXCEPT !.abnormalReadings = Append(@, p.data)]
       ELSE pushed

clearHealthData(s) ==
    [s EXCEPT !.realtimeData = [ t \in Types |-> <<>> ],
              !.historicalData = <<>>,
              !.abnormalReadings = <<>>]

\* The pending and the rejected case are the same for the slice's three thunks.
healthDataPending(s) == [s EXCEPT !.loading = TRUE, !.error = Null]

healthDataRejected(s, m) == [s EXCEPT !.loading = FALSE, !.error = m]

fetchPatientHealthDataFulfilled(s, p) ==
    [s EXCEPT !.loading = FALSE, !.historicalData = p]

ofType(item, t) == item.type = t

\* The payload grouped by type; items of other types are dropped.
fetchRealtimeHealthDataFulfilled(s, p) ==
    [s EXCEPT !.loading = FALSE,
              !.realtimeData = [ t \in Types |->
                                   SelectSeq(p, LAMBDA item : ofType(item, t)) ]]

fetchAbnormalReadingsFulfilled(s, p) ==
    [s EXCEPT !.loading = FALSE, !.abnormalReadings = p]

HealthThunks ==
    {"fetchPatientHealthData", "fetchRealtimeHealthData", "fetchAbnormalReadings"}

\* 'Failed to fetch health data' and its siblings, or the server's message.
FetchFailed == "Failed to fetch"

\* -------------------------------------------------------- appointments slice
\* An Appointment, reduced to its id and status; NoAppointment: null.
Appointment(id, status) == [ id |-> id, status |-> status ]

NoAppointment == Appointment(Null, Null)

appointmentsInitialState ==
    [ appointments |-> <<>>,
      availableSlots |-> <<>>,
      currentAppointment |-> NoAppointment,
      loading |-> FALSE,
      error |-> Null ]

setCurrentAppointment(s, a) == [s EXCEPT !.currentAppointment = a]

clearAppointmentError(s) == [s EXCEPT !.error = Null]

\* The pending and the rejected case are the same for the slice's six thunks.
appointmentsPending(s) == [s EXCEPT !.loading = TRUE, !.error = Null]

appointmentsRejected(s, m) == [s EXCEPT !.loading = FALSE, !.error = m]

\* fetchAppointments.fulfilled and fetchDoctorAppointments.fulfilled
fetchAppointmentsFulfilled(s, p) == [s EXCEPT !.loading = FALSE, !.appointments = p]

fetchAvailableSlotsFulfilled(s, p) ==
    [s EXCEPT !.loading = FALSE, !.availableSlots = p]

bookAppointmentFulfilled(s, a) ==
    [s EXCEPT !.loading = FALSE, !.appointments = Append(@, a)]

\* appointments.findIndex(appointment => appointment.id === id), 0 for -1
findIndex(list, id) ==
    LET hits == { i \in 1..Len(list) : list[i].id = id }
    IN IF hits = {} THEN 0 ELSE CHOOSE i \in hits : \A j \in hits : i <= j

\* updateAppointment.fulfilled and cancelAppointment.fulfilled
updateAppointmentFulfilled(s, a) ==
    LET index == findIndex(s.appointments, a.id)
    IN [s EXCEPT !.loading = FALSE,
                 !.appointments = IF index # 0 THEN [@ EXCEPT ![index] = a] ELSE @,
                 !.currentAppointment = IF @.id = a.id THEN a ELSE @]

AppointmentThunks ==
    {"fetchAppointments", "fetchDoctorAppointments", "fetchAvailableSlots",
     "bookAppointment", "updateAppointment", "cancelAppointment"}

\* -------------------------------------------------------------- persistence
\* The content of localStorage: the slice as redux-persist wrote it, or
\* nothing the rehydration can read (missing or corrupt).
Stored(s) == [ ok |-> TRUE, state |-> s ]

Unreadable == [ ok |-> FALSE, state |-> initialState ]

\* The slice after persist/REHYDRATE: the persisted one, the reducer's initial
\* state when there is none.
rehydrate(p) == IF p.ok THEN p.state ELSE initialState

\* persistReducer: the slice is written to localStorage after every action.
Persist == persisted' = Stored(auth')

\* Mutant: a gate that renders its children without waiting.
PersistGate_noWait(bootstrapped) == TRUE

\* <PersistGate loading={null}>: its children (App among them) are rendered
\* once the persistor has rehydrated.
PersistGate(bootstrapped) == bootstrapped

\* First visit: the store is created, nothing is persisted yet.
Init ==
    /\ auth = initialState
    /\ req = EmptyBag
    /\ issued = 0
    /\ boot = "rehydrating"
    /\ payload = NoPayload
    /\ persisted = Unreadable
    /\ healthData = healthDataInitialState
    /\ appointments = appointmentsInitialState
    /\ thunks = EmptyBag


\* ------------------------------------------------------------------ views
\* The login and sign-up forms are shown while not authenticated; the
\* dashboards (which call the protected endpoints and hold the logout button)
\* while authenticated; neither while auth.loading (App.tsx).
Running == boot = "done"

Calls == BagToSet(req)

\* No call has settled without its caller having resumed.  A caller resumes
\* from its await on apiService in the same run of the promise jobs in which
\* the interceptor settled the call, before the browser delivers any other
\* event (a click, another response, an unload).
Idle == \A c \in Calls : c.pc \in {"sent", "refreshing"}

\* The bag of calls with call q replaced by q2.
Swap(q, q2) == (req (-) SetToBag({q})) (+) SetToBag({q2})

\* Bounding only.  The number of outstanding calls that the backend answers
\* with a new token pair when it accepts them (logins, registrations, refresh
\* calls): such a call is made only while issued + Issuing < MaxTok, so that
\* each of them can still be accepted.
Issuing ==
    BagCardinality([q \in {c \in Calls : \/ c.pc = "refreshing"
                                         \/ c.pc = "sent" /\ c.url # ProtectedUrl}
                      |-> req[q]])

\* A view issues a call through apiService: the request interceptor merges
\* getAuthHeaders() into the headers and the attempt goes on the wire.
Send(url, who) ==
    /\ Running
    /\ Idle
    /\ BagCardinality(req) < NumReq
    /\ ~auth.loading
    /\ IF url = ProtectedUrl
       THEN auth.isAuthenticated /\ who = Null
       ELSE ~auth.isAuthenticated /\ who \in Users /\ issued + Issuing < MaxTok
    /\ req' = req (+) SetToBag({ [ NewReq EXCEPT !.url = url, !.who = who,
                                        !.authz = getAuthHeaders(auth, NoToken),
                                        !.sends = 1 ] })
    /\ UNCHANGED <<auth, issued, boot, payload>>
    /\ Persist
    /\ UNCHANGED slices

\* The attempt on the wire comes back 2xx: the response interceptor passes it
\* through and the apiService method resolves.  A login or registration
\* response carries a freshly issued token pair for the user.
RespondOk(q) ==
    /\ Running
    /\ Idle
    /\ q.pc = "sent"
    /\ IF q.url = ProtectedUrl
       THEN /\ req' = Swap(q, Resolved(q.url, NoToken))
            /\ UNCHANGED issued
       ELSE /\ issued < MaxTok
            /\ issued' = issued + 1
            /\ req' = Swap(q, Resolved(q.url, Token(issued + 1, q.who)))
    /\ UNCHANGED <<auth, boot, payload>>
    /\ Persist
    /\ UNCHANGED slices

\* The attempt on the wire fails: the error handler of the response
\* interceptor, up to its first await.
RespondError(q, resp) ==
    /\ Running
    /\ Idle
    /\ q.pc = "sent"
    /\ IF shouldRefresh(q, resp)
       THEN IF auth.refreshToken = NoToken
            THEN /\ auth' = resetAuth(auth)
                 /\ req' = Swap(q, Rejected(q.url, NoRefreshToken))
            ELSE /\ issued + Issuing < MaxTok
                 /\ req' = Swap(q, [q EXCEPT !.retry = TRUE, !.pc = "refreshing",
                                             !.rt = auth.refreshToken,
                                             !.refreshCalls = @ + 1])
                 /\ UNCHANGED auth
       ELSE /\ req' = Swap(q, Rejected(q.url, errorMessage(resp)))
            /\ UNCHANGED auth
    /\ UNCHANGED <<issued, boot, payload>>
    /\ Persist
    /\ UNCHANGED slices

\* The store after the refresh path's write of the new pair t: setAuthData is
\* dispatched with the user the store holds now; with no user there the
\* reducer throws on user.role, the store keeps its state, and the catch
\* block dispatches resetAuth.
\* Mutant: a reducer that does not throw on a missing user.
refreshWrite_noThrow(s, t) ==
    setAuthData(s, [accessToken |-> t, refreshToken |-> t, user |-> s.user])

refreshWrite(s, t) ==
    IF s.user = Null THEN resetAuth(s)
    ELSE setAuthData(s, [accessToken |-> t, refreshToken |-> t, user |-> s.user])

\* POST auth/refresh comes back 2xx with a new pair: the interceptor resumes
\* after its await and writes the pair.  When the write went through, the
\* original request is put on the wire again, through the request
\* interceptor; when it threw, the call rejects from the catch block.
RefreshOk(q) ==
    /\ Running
    /\ Idle
    /\ q.pc = "refreshing"
    /\ issued < MaxTok
    /\ issued' = issued + 1
    /\ LET new == Token(issued + 1, q.rt.u)
           written == refreshWrite(auth, new)
       IN /\ auth' = written
          /\ IF auth.user = Null
             THEN req' = Swap(q, Rejected(q.url, SessionExpired))
             ELSE req' = Swap(q, [q EXCEPT !.pc = "sent", !.loggedOut = FALSE,
                                    !.authz = getAuthHeaders(written,
                                                getAuthHeaders(written, q.authz)),
                                    !.sends = @ + 1])
    /\ UNCHANGED <<boot, payload>>
    /\ Persist
    /\ UNCHANGED slices

\* POST auth/refresh fails (non-2xx or no response): the catch block.
RefreshFail(q, status) ==
    /\ Running
    /\ Idle
    /\ q.pc = "refreshing"
    /\ auth' = resetAuth(auth)
    /\ req' = Swap(q, Rejected(q.url, SessionExpired))
    /\ UNCHANGED <<issued, boot, payload>>
    /\ Persist
    /\ UNCHANGED slices

\* The message fetchUsers stores for an error: a message that includes
\* "Unauthorized" becomes the session-expired message.
fetchUsersMessage(m) == IF m = serverMessage(401) THEN SessionExpired ELSE m

\* The caller resumes after its await on apiService: Login.handleSubmit,
\* SignUp.handleSubmit, or the admin dashboard's fetchUsers.  The calls to
\* apiService.setToken there and in the interceptor reach setAuthToken of
\* utils/auth, which is outside the sources at hand; it is taken to leave
\* state.auth alone.
Settle(q) ==
    /\ Running
    /\ q.pc \in {"resolved", "rejected"}
    /\ auth' =
         IF q.pc = "rejected"
         THEN IF q.url = ProtectedUrl
              THEN setError(auth, fetchUsersMessage(q.msg))
              ELSE setError(auth, q.msg)
         ELSE IF q.url = LoginUrl
              THEN setAuthData(auth, [accessToken |-> q.data, refreshToken |-> q.data,
                                      user |-> q.data.u])
         ELSE IF q.url = RegisterUrl
              THEN setAuthData(auth, [accessToken |-> q.data, refreshToken |-> NoToken,
                                      user |-> q.data.u])
         ELSE clearError(auth)
    /\ req' = req (-) SetToBag({q})
    /\ UNCHANGED <<issued, boot, payload>>
    /\ Persist
    /\ UNCHANGED slices

\* History only: a logout happens while the call's refresh call is in flight.
markLoggedOut(q) ==
    IF q.pc = "refreshing" THEN [q EXCEPT !.loggedOut = TRUE] ELSE q

\* DashboardLayout.handleLogout.  Calls in flight are not cancelled.
Logout ==
    /\ Running
    /\ Idle
    /\ auth.isAuthenticated
    /\ ~auth.loading
    /\ auth' = resetAuth(auth)
    /\ req' = BagOfAll(markLoggedOut, req)
    /\ UNCHANGED <<issued, boot, payload>>
    /\ Persist
    /\ UNCHANGED slices

\* ------------------------------------------------------------ app start
\* The page is loaded again: the calls and thunks of the old page are gone and
\* the store is created anew; localStorage holds what was persisted of
\* state.auth, unless it got lost or damaged.
Reload ==
    /\ Running
    /\ Idle
    /\ auth' = initialState
    /\ req' = EmptyBag
    /\ boot' = "rehydrating"
    /\ payload' = NoPayload
    /\ persisted' \in {persisted, Unreadable}
    /\ healthData' = healthDataInitialState
    /\ appointments' = appointmentsInitialState
    /\ thunks' = EmptyBag
    /\ UNCHANGED issued

\* persistStore: the persisted slice is read and persist/REHYDRATE puts it
\* into the store; PersistGate then renders App.
Rehydrate ==
    /\ boot = "rehydrating"
    /\ auth' = rehydrate(persisted)
    /\ boot' = "start"
    /\ UNCHANGED <<req, issued, payload>>
    /\ Persist
    /\ UNCHANGED slices

\* App's effect dispatches checkAuth(): the pending action, then the payload
\* creator reads the store.
CheckAuthPending ==
    /\ boot \in {"rehydrating", "start"}
    /\ PersistGate(boot = "start")
    /\ auth' = checkAuthPending(auth)
    /\ payload' = checkAuth(auth')
    /\ boot' = "pending"
    /\ UNCHANGED <<req, issued>>
    /\ Persist
    /\ UNCHANGED slices

CheckAuthFulfilled ==
    /\ boot = "pending"
    /\ payload.ok
    /\ auth' = checkAuthFulfilled(auth, payload)
    /\ boot' = "done"
    /\ payload' = NoPayload
    /\ UNCHANGED <<req, issued>>
    /\ Persist
    /\ UNCHANGED slices

CheckAuthRejected ==
    /\ boot = "pending"
    /\ ~payload.ok
    /\ auth' = checkAuthRejected(auth, NoAccessToken)
    /\ boot' = "done"
    /\ payload' = NoPayload
    /\ UNCHANGED <<req, issued>>
    /\ Persist
    /\ UNCHANGED slices

\* ---------------------------------------------------------- specification
Next ==
    \/ \E url \in Urls, who \in Users \cup {Null} : Send(url, who)
    \/ \E q \in Calls : RespondOk(q)
    \/ \E q \in Calls, resp \in ErrorResponses : RespondError(q, resp)
    \/ \E q \in Calls : RefreshOk(q)
    \/ \E q \in Calls, status \in ErrorStatuses : RefreshFail(q, status)
    \/ \E q \in Calls : Settle(q)
    \/ Logout
    \/ Reload
    \/ Rehydrate
    \/ CheckAuthPending
    \/ CheckAuthFulfilled
    \/ CheckAuthRejected

Spec == Init /\ [][Next]_vars

\* The store alone, under every sequence of dispatches its reducers accept
\* (the program itself never dispatches updateUser): the reducers with every
\* payload, the write of the refresh path with every token pair, and the
\* checkAuth actions, a dispatch being allowed between pending and the end.
Tokens == { Token(n, u) : n \in 1..MaxTok, u \in Users }

DispatchSetAuthData(p) ==
    /\ auth' = setAuthData(auth, p)
    /\ UNCHANGED <<req, issued, boot, payload>>
    /\ Persist
    /\ UNCHANGED slices

DispatchRefreshWrite(t) ==
    /\ auth' = refreshWrite(auth, t)
    /\ UNCHANGED <<req, issued, boot, payload>>
    /\ Persist
    /\ UNCHANGED slices

DispatchSetError(m) ==
    /\ auth' = setError(auth, m)
    /\ UNCHANGED <<req, issued, boot, payload>>
    /\ Persist
    /\ UNCHANGED slices

DispatchClearError ==
    /\ auth' = clearError(auth)
    /\ UNCHANGED <<req, issued, boot, payload>>
    /\ Persist
    /\ UNCHANGED slices

DispatchUpdateUser(u) ==
    /\ auth' = updateUser(auth, u)
    /\ UNCHANGED <<req, issued, boot, payload>>
    /\ Persist
    /\ UNCHANGED slices

DispatchResetAuth ==
    /\ auth' = resetAuth(auth)
    /\ UNCHANGED <<req, issued, boot, payload>>
    /\ Persist
    /\ UNCHANGED slices

NextStore ==
    \/ \E a \in Tokens, r \in Tokens \cup {NoToken}, u \in Users :
           DispatchSetAuthData([accessToken |-> a, refreshToken |-> r, user |-> u])
    \/ \E t \in Tokens : DispatchRefreshWrite(t)
    \/ \E m \in {RequestFailed, SessionExpired} : DispatchSetError(m)
    \/ DispatchClearError
    \/ \E u \in Users : DispatchUpdateUser(u)
    \/ DispatchResetAuth
    \/ Reload
    \/ Rehydrate
    \/ CheckAuthPending
    \/ CheckAuthFulfilled
    \/ CheckAuthRejected

SpecStore == Init /\ [][NextStore]_vars

\* ------------------------------------------------------------- health data
\* The healthData slice alone, under its reducers and the life cycle of its
\* thunks: dispatching a thunk dispatches its pending action at once; its
\* request is answered later, and the fulfilled or rejected action follows.
Thunk(slice, type) == [ slice |-> slice, type |-> type ]

Pending(slice) ==
    BagCardinality([ th \in { x \in BagToSet(thunks) : x.slice = slice }
                       |-> thunks[th] ])

\* Points n..m of a series of one type, in order of arrival.
Series(type, n, m) == [ i \in 1..(m - n + 1) |-> Point(type, n + i - 1, FALSE) ]

LastArrival(series) == IF series = <<>> THEN 0 ELSE series[Len(series)].n

\* Bounding only: the arrival numbers in use.
Arrivals ==
    LET r == healthData.realtimeData
    IN LastArrival(r["heartRate"]) + LastArrival(r["bloodPressure"])
         + LastArrival(r["bloodOxygen"]) + LastArrival(r["temperature"])

\* The types a reading is simulated with: the first and the last series, and
\* a type that has no series.
SimulatedTypes == {"heartRate", "temperature", "weight"}

\* What GET health-data/:id/realtime answers: nothing, a few points of
\* several types, or more points of one type than the window holds.
RealtimePayloads ==
    { <<>>,
      Series("heartRate", 1, 2) \o Series("weight", 1, 1) \o Series("temperature", 1, 1),
      Series("heartRate", 1, RealtimeWindow + 1) }

ReadingPayloads == { <<>>, <<Point("heartRate", 1, TRUE)>> }

DispatchHealthThunk(type) ==
    /\ BagCardinality(thunks) < MaxPending
    /\ healthData' = healthDataPending(healthData)
    /\ thunks' = thunks (+) SetToBag({Thunk("healthData", type)})
    /\ UNCHANGED <<session, appointments>>

FetchPatientHealthDataFulfilled(p) ==
    /\ BagIn(Thunk("healthData", "fetchPatientHealthData"), thunks)
    /\ healthData' = fetchPatientHealthDataFulfilled(healthData, p)
    /\ thunks' = thunks (-) SetToBag({Thunk("healthData", "fetchPatientHealthData")})
    /\ UNCHANGED <<session, appointments>>

FetchRealtimeHealthDataFulfilled(p) ==
    /\ BagIn(Thunk("healthData", "fetchRealtimeHealthData"), thunks)
    /\ healthData' = fetchRealtimeHealthDataFulfilled(healthData, p)
    /\ thunks' = thunks (-) SetToBag({Thunk("healthData", "fetchRealtimeHealthData")})
    /\ UNCHANGED <<session, appointments>>

FetchAbnormalReadingsFulfilled(p) ==
    /\ BagIn(Thunk("healthData", "fetchAbnormalReadings"), thunks)
    /\ healthData' = fetchAbnormalReadingsFulfilled(healthData, p)
    /\ thunks' = thunks (-) SetToBag({Thunk("healthData", "fetchAbnormalReadings")})
    /\ UNCHANGED <<session, appointments>>

HealthThunkRejected(type) ==
    /\ BagIn(Thunk("healthData", type), thunks)
    /\ healthData' = healthDataRejected(healthData, FetchFailed)
    /\ thunks' = thunks (-) SetToBag({Thunk("healthData", type)})
    /\ UNCHANGED <<session, appointments>>

\* A reading arrives: it is the next one of its type.  Bounding only: the
\* arrival numbers stay below MaxArrivals, and only the first reading of a
\* type is abnormal, while fewer than MaxAbnormal abnormal ones are held.
DispatchUpdateRealtimeData(type, isAbnormal) ==
    LET n == IF type \in Types
             THEN LastArrival(healthData.realtimeData[type]) + 1
             ELSE 1
    IN /\ Arrivals < MaxArrivals
       /\ isAbnormal => n = 1 /\ Len(healthData.abnormalReadings) < MaxAbnormal
       /\ healthData' = updateRealtimeData(healthData,
                            [type |-> type, data |-> Point(type, n, isAbnormal)])
    /\ UNCHANGED <<session, appointments, thunks>>

DispatchClearHealthData ==
    /\ healthData' = clearHealthData(healthData)
    /\ UNCHANGED <<session, appointments, thunks>>

NextHealth ==
    \/ \E type \in HealthThunks : DispatchHealthThunk(type)
    \/ \E p \in ReadingPayloads : FetchPatientHealthDataFulfilled(p)
    \/ \E p \in RealtimePayloads : FetchRealtimeHealthDataFulfilled(p)
    \/ \E p \in ReadingPayloads : FetchAbnormalReadingsFulfilled(p)
    \/ \E type \in HealthThunks : HealthThunkRejected(type)
    \/ \E type \in SimulatedTypes, isAbnormal \in BOOLEAN :
           DispatchUpdateRealtimeData(type, isAbnormal)
    \/ DispatchClearHealthData

SpecHealth == Init /\ [][NextHealth]_vars

\* ------------------------------------------------------------ appointments
\* The appointments slice alone, under its reducers and the life cycle of its
\* thunks.
AppointmentIds == {"a1", "a2"}

\* What GET appointments/user/:id and GET appointments/doctor/:id answer.
AppointmentLists ==
    { <<>>,
      <<Appointment("a1", "scheduled")>>,
      <<Appointment("a1", "completed"), Appointment("a2", "scheduled")>> }

Slot == [ doctorId |-> "d1" ]

SlotLists == { <<>>, <<Slot>> }

\* The thunk's request is answered 2xx: it leaves the pending ones and its
\* fulfilled action takes the slice to state s.
AppointmentThunkFulfilled(type, s) ==
    /\ BagIn(Thunk("appointments", type), thunks)
    /\ appointments' = s
    /\ thunks' = thunks (-) SetToBag({Thunk("appointments", type)})
    /\ UNCHANGED <<session, healthData>>

DispatchAppointmentThunk(type) ==
    /\ BagCardinality(thunks) < MaxPending
    /\ appointments' = appointmentsPending(appointments)
    /\ thunks' = thunks (+) SetToBag({Thunk("appointments", type)})
    /\ UNCHANGED <<session, healthData>>

FetchAppointmentsFulfilled(type, p) ==
    AppointmentThunkFulfilled(type, fetchAppointmentsFulfilled(appointments, p))

FetchAvailableSlotsFulfilled(p) ==
    AppointmentThunkFulfilled("fetchAvailableSlots",
                              fetchAvailableSlotsFulfilled(appointments, p))

BookAppointmentFulfilled(id) ==
    /\ Len(appointments.appointments) < MaxAppointments
    /\ AppointmentThunkFulfilled("bookAppointment",
           bookAppointmentFulfilled(appointments, Appointment(id, "scheduled")))

UpdateAppointmentFulfilled(a) ==
    AppointmentThunkFulfilled("updateAppointment",
                              updateAppointmentFulfilled(appointments, a))

CancelAppointmentFulfilled(id) ==
    AppointmentThunkFulfilled("cancelAppointment",
        updateAppointmentFulfilled(appointments, Appointment(id, "cancelled")))

AppointmentThunkRejected(type) ==
    /\ BagIn(Thunk("appointments", type), thunks)
    /\ appointments' = appointmentsRejected(appointments, FetchFailed)
    /\ thunks' = thunks (-) SetToBag({Thunk("appointments", type)})
    /\ UNCHANGED <<session, healthData>>

DispatchSetCurrentAppointment(id) ==
    /\ appointments' = setCurrentAppointment(appointments, Appointment(id, "scheduled"))
    /\ UNCHANGED <<session, healthData, thunks>>

DispatchClearAppointmentError ==
    /\ appointments' = clearAppointmentError(appointments)
    /\ UNCHANGED <<session, healthData, thunks>>

NextAppointments ==
    \/ \E type \in AppointmentThunks : DispatchAppointmentThunk(type)
    \/ \E type \in {"fetchAppointments", "fetchDoctorAppointments"},
          p \in AppointmentLists : FetchAppointmentsFulfilled(type, p)
    \/ \E p \in SlotLists : FetchAvailableSlotsFulfilled(p)
    \/ \E id \in AppointmentIds : BookAppointmentFulfilled(id)
    \/ \E id \in AppointmentIds, status \in {"scheduled", "completed"} :
           UpdateAppointmentFulfilled(Appointment(id, status))
    \/ \E id \in AppointmentIds : CancelAppointmentFulfilled(id)
    \/ \E type \in AppointmentThunks : AppointmentThunkRejected(type)
    \/ \E id \in AppointmentIds : DispatchSetCurrentAppointment(id)
    \/ DispatchClearAppointmentError

SpecAppointments == Init /\ [][NextAppointments]_vars

\* ---------------------------------------------------------------- routing
\* What React renders is a function of the store and the location.
Roles == {"admin", "doctor", "patient"}

LoginPath == "/login"
RegisterPath == "/register"
RootPath == "/"
DashboardPath == "/dashboard"
ConsultationPath == "/consultation/:id"

\* The role-specific dashboards; the other routes of a role are guarded the
\* same way as its dashboard.
dashboardOf(r) == "/" \o r \o "/dashboard"

RolePaths == { dashboardOf(r) : r \in Roles }
ProtectedPaths == {DashboardPath, ConsultationPath} \cup RolePaths
Paths == {RootPath, LoginPath, RegisterPath} \cup ProtectedPaths

\* The requiredRole prop of the guard around the element of a route.
requiredRole(path) ==
    IF path \in RolePaths THEN CHOOSE r \in Roles : path = dashboardOf(r) ELSE Null

\* Outcomes of rendering: a loading placeholder, a <Navigate> to a path, or
\* the view of a path.
Placeholder == [kind |-> "placeholder", to |-> Null]
Redirect(path) == [kind |-> "redirect", to |-> path]
View(path) == [kind |-> "view", to |-> path]

\* Mutant: a guard that does not look at the role.
ProtectedRoute_noRoleCheck(loading, isAuthenticated, userRole, required, child) ==
    IF loading THEN Placeholder
    ELSE IF ~isAuthenticated THEN Redirect(LoginPath)
    ELSE child

\* Mutant: a guard that does not look at isAuthenticated.
ProtectedRoute_ignoresAuth(loading, isAuthenticated, userRole, required, child) ==
    IF loading THEN Placeholder
    ELSE IF required # Null /\ userRole # required THEN Redirect(DashboardPath)
    ELSE child

\* ProtectedRoute: loading and user?.role come from the store, isAuthenticated
\* and requiredRole are props, child is what the children (or the Outlet)
\* render.
ProtectedRoute(loading, isAuthenticated, userRole, required, child) ==
    IF loading THEN Placeholder
    ELSE IF ~isAuthenticated THEN Redirect(LoginPath)
    ELSE IF required # Null /\ userRole # required THEN Redirect(DashboardPath)
    ELSE child

\* Mutant: a landing route that sends everybody to the patient dashboard.
landing_alwaysPatient(userRole) == dashboardOf("patient")

\* The target of the /dashboard route: by state.auth.userRole.
landing(userRole) ==
    IF userRole = "admin" THEN dashboardOf("admin")
    ELSE IF userRole = "doctor" THEN dashboardOf("doctor")
    ELSE dashboardOf("patient")

\* Mutant: routes whose /login always renders the login form.
Routes_loginAlwaysShown(loading, isAuthenticated, userRole, roleOfUser, path) ==
    IF path = LoginPath THEN View(path)
    ELSE IF path = RegisterPath
    THEN IF isAuthenticated THEN Redirect(DashboardPath) ELSE View(path)
    ELSE IF path = RootPath
    THEN Redirect(IF isAuthenticated THEN DashboardPath ELSE LoginPath)
    ELSE ProtectedRoute(loading, isAuthenticated, roleOfUser, Null,
            IF path = DashboardPath THEN Redirect(landing(userRole))
            ELSE ProtectedRoute(loading, isAuthenticated, roleOfUser,
                                requiredRole(path), View(path)))

\* The <Routes> of App for a location, from the fields of state.auth that App
\* and the guards read: loading, isAuthenticated, userRole and user?.role.
Routes(loading, isAuthenticated, userRole, roleOfUser, path) ==
    IF path \in {LoginPath, RegisterPath}
    THEN IF isAuthenticated THEN Redirect(DashboardPath) ELSE View(path)
    ELSE IF path = RootPath
    THEN Redirect(IF isAuthenticated THEN DashboardPath ELSE LoginPath)
    ELSE ProtectedRoute(loading, isAuthenticated, roleOfUser, Null,
            IF path = DashboardPath THEN Redirect(landing(userRole))
            ELSE ProtectedRoute(loading, isAuthenticated, roleOfUser,
                                requiredRole(path), View(path)))

\* Mutant: an App that renders its routes while loading.
Screen_noSpinner(loading, isAuthenticated, userRole, roleOfUser, path) ==
    Routes(FALSE, isAuthenticated, userRole, roleOfUser, path)

\* What App returns: the spinner while loading, else the routes.
Screen(loading, isAuthenticated, userRole, roleOfUser, path) ==
    IF loading THEN Placeholder
    ELSE Routes(loading, isAuthenticated, userRole, roleOfUser, path)

\* App over a state of the auth slice.
App(s, path) ==
    Screen(s.loading, s.isAuthenticated, s.userRole, role(s.user), path)

\* Where a navigation to path ends: <Navigate> elements are followed until
\* something else is rendered; "cycle" when hops redirects were followed and
\* the next element is one more.
RECURSIVE Follow(_, _, _, _, _, _)
Follow(loading, isAuthenticated, userRole, roleOfUser, path, hops) ==
    LET d == Screen(loading, isAuthenticated, userRole, roleOfUser, path)
    IN IF d.kind # "redirect" THEN d
       ELSE IF hops = 0 THEN [kind |-> "cycle", to |-> d.to]
       ELSE Follow(loading, isAuthenticated, userRole, roleOfUser, d.to, hops - 1)

\* A chain of more redirects than there are paths visits a path twice.
Land(loading, isAuthenticated, userRole, roleOfUser, path) ==
    Follow(loading, isAuthenticated, userRole, roleOfUser, path,
           Cardinality(Paths))

\* ------------------------------------------------------------- progress
\* A network call returns and its handler runs, or a caller resumes.
Progress ==
    \E q \in Calls :
        \/ RespondOk(q)
        \/ \E resp \in ErrorResponses : RespondError(q, resp)
        \/ RefreshOk(q)
        \/ \E status \in ErrorStatuses : RefreshFail(q, status)
        \/ Settle(q)

\* A view issues a new call.
Issue == \E url \in Urls, who \in Users \cup {Null} : Send(url, who)

\* Every network call eventually returns, and the promise jobs run.
SpecLive == Init /\ [][Next]_vars /\ WF_vars(Progress)

\* ------------------------------------------------------------------ claims
\* A handler step of the HTTP client on call q: q leaves the bag, q2 enters.
Handles(q, q2) == q \in Calls /\ q2 # q /\ q2.pc # q.pc /\ req' = Swap(q, q2)

\* The session is in the empty unauthenticated state.
SessionReset(s) ==
    /\ ~s.isAuthenticated
    /\ s.accessToken = NoToken
    /\ s.refreshToken = NoToken
    /\ s.user = Null

\* C1: in every reachable state of the auth store, under every dispatch of
\* setAuthData, setError, clearError, updateUser, resetAuth, the checkAuth
\* actions and the writes of the refresh path, isAuthenticated = true implies
\* that accessToken and user are both present.
C1_AuthenticatedHasTokenAndUser ==
    auth.isAuthenticated => auth.accessToken # NoToken /\ auth.user # Null

\* C1 witness: an authenticated store whose user was replaced by updateUser
\* and whose tokens were then written by the refresh path.
C1_Witness ==
    /\ auth.isAuthenticated
    /\ auth.accessToken = auth.refreshToken
    /\ auth.user # Null
    /\ auth.user # auth.accessToken.u
    /\ auth.userRole = role(auth.user)

\* The calls whose refresh call (POST auth/refresh) is in flight.
Refreshing == [q \in {c \in Calls : c.pc = "refreshing"} |-> req[q]]

\* C2: at most one refresh network call is in flight at any time.
C2_AtMostOneRefreshInFlight == BagCardinality(Refreshing) <= 1

\* C3: requests that receive 401 concurrently share one refresh call and its
\* outcome: it never happens that the refresh of one succeeds (it is replayed
\* with the refreshed token) while another, which sent the same refresh
\* token, then resets the session.
C3_SharedRefreshOutcome ==
    [][\A q \in Calls :
          ( /\ q.pc = "refreshing"
            /\ q.url = ProtectedUrl
            /\ Handles(q, Rejected(q.url, SessionExpired))
            /\ SessionReset(auth') )
          => ~ \E c \in Calls : /\ c # q
                                /\ c.url = ProtectedUrl
                                /\ c.pc = "sent"
                                /\ c.sends = 2
                                /\ c.rt = q.rt
      ]_vars

\* C4: a 401 answer to /auth/login never starts a refresh call and never
\* resets the session: the store is left as it is and the call rejects with
\* the server's message, or with the generic fallback when the body has none.
C4_LoginNeverRefreshes ==
    /\ [](\A q \in Calls : q.url = LoginUrl => q.pc # "refreshing" /\ q.refreshCalls = 0)
    /\ [][\A q \in Calls, resp \in ErrorResponses :
             ( /\ q.url = LoginUrl
               /\ resp.status = 401
               /\ RespondError(q, resp) )
             => /\ auth' = auth
                /\ req' = Swap(q, Rejected(q.url, IF resp.message # Null
                                           THEN resp.message ELSE RequestFailed))
         ]_vars

\* C4 witness: a login was answered 401 with a message and rejected with it
\* (no token was ever issued, so the rejected call is no replay).
C4_Witness ==
    /\ issued = 0
    /\ \E q \in Calls : q.url = LoginUrl /\ q.pc = "rejected" /\ q.msg = serverMessage(401)

\* C5: for every original request at most one refresh call is made and the
\* request is put on the wire at most twice (re-issued at most once).
C5_AtMostOneRefreshAndReplay ==
    \A q \in Calls : q.refreshCalls <= 1 /\ q.sends <= 2

\* C5 witness: a request that made its refresh call and is on the wire again.
C5_Witness ==
    \E q \in Calls : q.pc = "sent" /\ q.retry /\ q.refreshCalls = 1 /\ q.sends = 2

\* What C6 says of the step in which the refresh call of q succeeds: the
\* store holds the new pair, is authenticated, keeps its user, and q is on the
\* wire a second time with the new access token as its bearer token.
RefreshedAndReplayed(q) ==
    LET new == Token(issued + 1, q.rt.u)
    IN /\ auth'.accessToken = new
       /\ auth'.refreshToken = new
       /\ auth'.isAuthenticated
       /\ auth'.user = auth.user
       /\ \E c \in BagToSet(req') :
             /\ Handles(q, c)
             /\ c.pc = "sent"
             /\ c.authz = new
             /\ c.sends = 2

\* C6 as stated: whenever the refresh call of a request succeeds, the store
\* afterwards holds the new pair, authenticated, with the same user, and the
\* request is re-issued once with the new bearer token.
C6_Original ==
    [][\A q \in Calls :
          (q.url = ProtectedUrl /\ RefreshOk(q)) => RefreshedAndReplayed(q)
      ]_vars

\* C6 amended: the same, provided the store holds a user when the refresh
\* response arrives; when it holds none (it was reset meanwhile) the store is
\* left empty and unauthenticated, and the call rejects with the
\* session-expired error without being re-issued.
C6_RefreshSuccessReplays ==
    [][\A q \in Calls :
          (q.url = ProtectedUrl /\ RefreshOk(q)) =>
             IF auth.user # Null THEN RefreshedAndReplayed(q)
             ELSE /\ auth' = initialState
                  /\ req' = Swap(q, Rejected(q.url, SessionExpired))
      ]_vars

\* C6 witness: the store holds the pair issued last and a replay carrying it
\* is on the wire.
C6_Witness ==
    /\ auth.isAuthenticated
    /\ auth.accessToken = auth.refreshToken
    /\ auth.accessToken.n = issued
    /\ auth.user # Null
    /\ \E q \in Calls : /\ q.url = ProtectedUrl
                        /\ q.pc = "sent" /\ q.sends = 2 /\ q.authz = auth.accessToken
                        /\ q.rt # NoToken /\ q.rt.n < issued

\* C7: when the refresh call fails (a non-2xx status, 401 included, or no
\* response), the store is reset to the empty unauthenticated state and the
\* call rejects with the session-expired error, not re-issued.
C7_RefreshFailureResets ==
    [][\A q \in Calls, status \in ErrorStatuses :
          RefreshFail(q, status) =>
             /\ auth' = initialState
             /\ req' = Swap(q, Rejected(q.url, SessionExpired))
      ]_vars

\* C7 witness: a call rejected with the session-expired error over an empty
\* store, no refresh having succeeded (one pair was issued, at login).
C7_Witness ==
    /\ issued = 1
    /\ auth = initialState
    /\ \E q \in Calls : q.url = ProtectedUrl /\ q.pc = "rejected" /\ q.msg = SessionExpired

\* What C8 says of a 401: the session is reset and the call fails, no refresh
\* call being made.
ResetWithoutRefresh(q) ==
    /\ SessionReset(auth')
    /\ req' = Swap(q, Rejected(q.url, NoRefreshToken))

\* C8 as stated: whenever a non-login request receives 401 and the store
\* holds no refresh token, the session is reset and the call fails without a
\* refresh call.
C8_Original ==
    [][\A q \in Calls, resp \in ErrorResponses :
          ( /\ q.url # LoginUrl
            /\ resp.status = 401
            /\ auth.refreshToken = NoToken
            /\ RespondError(q, resp) )
          => /\ SessionReset(auth')
             /\ \E c \in BagToSet(req') : Handles(q, c) /\ c.pc = "rejected"
      ]_vars

\* C8 amended: the same for a request that has not been replayed yet; the
\* store is then exactly the empty unauthenticated state.
C8_NoRefreshTokenResets ==
    [][\A q \in Calls, resp \in ErrorResponses :
          ( /\ q.url # LoginUrl
            /\ ~q.retry
            /\ resp.status = 401
            /\ auth.refreshToken = NoToken
            /\ RespondError(q, resp) )
          => ResetWithoutRefresh(q) /\ auth' = initialState
      ]_vars

\* C8 witness: a call rejected for want of a refresh token, over an empty
\* store.
C8_Witness ==
    /\ auth = initialState
    /\ \E q \in Calls : q.url = ProtectedUrl /\ q.pc = "rejected" /\ q.msg = NoRefreshToken

\* C9: a call during whose refresh a logout happened fails closed when the
\* refresh completes: the step writes no token into the store and does not
\* turn isAuthenticated from false to true.
C9_NoWriteAfterLogout ==
    [][\A q \in Calls :
          ( /\ q.loggedOut
            /\ \E c \in BagToSet(req') : Handles(q, c) )
          => /\ auth'.accessToken \in {auth.accessToken, NoToken}
             /\ auth'.refreshToken \in {auth.refreshToken, NoToken}
             /\ auth'.isAuthenticated => auth.isAuthenticated
      ]_vars

\* C10: a request that fails with a status other than 401, or with no
\* response (timeout, network error), starts no refresh call, is not
\* re-issued and leaves the store as it is; the call rejects with the
\* server's message if there is one, else with the generic fallback.
C10_OtherFailuresLeaveStore ==
    [][\A q \in Calls, resp \in ErrorResponses :
          ( /\ resp.status # 401
            /\ RespondError(q, resp) )
          => /\ auth' = auth
             /\ issued' = issued
             /\ req' = Swap(q, Rejected(q.url, IF resp.message # Null
                                        THEN resp.message ELSE RequestFailed))
      ]_vars

\* C10 witness: a call rejected with the message of a 500 response, over a
\* store that is still authenticated.
C10_Witness ==
    /\ auth.isAuthenticated
    /\ \E q \in Calls : q.url = ProtectedUrl /\ q.pc = "rejected" /\ q.msg = serverMessage(500)

C12_GuardDecision ==
    /\ \A l \in BOOLEAN, a \in BOOLEAN, ur \in Roles \cup {Null},
          rr \in Roles \cup {Null} :
          LET d == ProtectedRoute(l, a, ur, rr, View(ConsultationPath))
          IN /\ l => d = Placeholder
             /\ (~l /\ ~a) => d = Redirect(LoginPath)
             /\ (~l /\ a /\ rr # Null /\ ur # rr) => d = Redirect(DashboardPath)
             /\ (~l /\ a /\ (rr = Null \/ ur = rr)) => d = View(ConsultationPath)
    /\ \A p \in ProtectedPaths :
          App(auth, p).kind = "view" =>
             /\ ~auth.loading
             /\ auth.isAuthenticated
             /\ requiredRole(p) \in {Null, role(auth.user)}

\* C12 witness: a session for which the guard renders one role's dashboard
\* and redirects from another's.
C12_Witness ==
    /\ auth.isAuthenticated
    /\ App(auth, dashboardOf("patient")) = View(dashboardOf("patient"))
    /\ App(auth, dashboardOf("admin")) = Redirect(DashboardPath)
    /\ App(auth, ConsultationPath) = View(ConsultationPath)

\* C13: in every reachable state with an authenticated user, navigating to a
\* route whose required role is not the user's redirects to /dashboard and
\* the chain of redirects ends on the view of the user's own dashboard; the
\* same for each of the three roles against each other role's routes; and
\* from no path does the chain of redirects cycle.
C13_MismatchLandsOnOwnDashboard ==
    /\ \A p \in RolePaths :
          ( /\ auth.isAuthenticated
            /\ ~auth.loading
            /\ requiredRole(p) # role(auth.user) )
          => /\ App(auth, p) = Redirect(DashboardPath)
             /\ Land(auth.loading, auth.isAuthenticated, auth.userRole,
                     role(auth.user), p) = View(dashboardOf(role(auth.user)))
    /\ \A r \in Roles, p \in RolePaths :
          Land(FALSE, TRUE, r, r, p) = View(dashboardOf(r))
    /\ \A p \in Paths :
          Land(auth.loading, auth.isAuthenticated, auth.userRole,
               role(auth.user), p).kind # "cycle"

\* C13 witness: an admin is signed in; the patient dashboard redirects to
\* /dashboard and the chain ends on the admin dashboard.
C13_Witness ==
    /\ auth.isAuthenticated
    /\ ~auth.loading
    /\ role(auth.user) = "admin"
    /\ App(auth, dashboardOf("patient")) = Redirect(DashboardPath)
    /\ App(auth, DashboardPath) = Redirect(dashboardOf("admin"))
    /\ App(auth, dashboardOf("admin")) = View(dashboardOf("admin"))

\* C14: from the moment App is rendered until checkAuth has been fulfilled or
\* rejected, what is rendered for a protected path is the loading
\* placeholder: no view, no redirect.
C14_PlaceholderUntilBootstrapped ==
    boot \in {"start", "pending"} =>
        \A p \in ProtectedPaths : App(auth, p) = Placeholder

\* The session lacks a field the app-start check requires by C15.
LacksRequiredField(s) ==
    \/ ~s.isAuthenticated
    \/ s.accessToken = NoToken
    \/ s.refreshToken = NoToken
    \/ s.user = Null

\* The app-start check completes in this step.
CheckAuthCompletes == boot = "pending" /\ boot' = "done"

\* C15: when the session the app starts with lacks a required field
\* (isAuthenticated, accessToken, refreshToken or user), the app-start check
\* ends unauthenticated (tokens and user absent) with loading false, and
\* every protected route then redirects to /login.
C15_IncompleteSessionEndsLoggedOut ==
    [][ ( CheckAuthCompletes /\ LacksRequiredField(auth) )
        => /\ SessionReset(auth')
           /\ ~auth'.loading
           /\ \A p \in ProtectedPaths : App(auth', p) = Redirect(LoginPath)
      ]_vars

\* C16: when the app starts with isAuthenticated true, both tokens and a
\* user, dispatching the check changes only loading and error, the check
\* completes with isAuthenticated true, the same tokens and user and
\* loading false, and neither step makes a network call.
C16_CompleteSessionIsKept ==
    [][ /\ ( boot = "start" /\ boot' = "pending" /\ ~LacksRequiredField(auth) )
           => /\ auth' = [auth EXCEPT !.loading = TRUE, !.error = Null]
              /\ req' = req
              /\ issued' = issued
        /\ ( CheckAuthCompletes /\ ~LacksRequiredField(auth) )
           => /\ auth'.isAuthenticated
              /\ auth'.accessToken = auth.accessToken
              /\ auth'.refreshToken = auth.refreshToken
              /\ auth'.user = auth.user
              /\ ~auth'.loading
              /\ req' = req
              /\ issued' = issued
      ]_vars

\* C16 witness: the app-start check is under way on a session that holds
\* both tokens and a user.
C16_Witness ==
    /\ boot = "pending"
    /\ ~LacksRequiredField(auth)
    /\ auth.loading
    /\ payload.ok
    /\ payload.accessToken = auth.accessToken
    /\ payload.refreshToken = auth.refreshToken
    /\ payload.user = auth.user

\* The step is a terminal session failure of call q: its refresh failed (or
\* found the session gone), or it received 401 with no refresh token.
TerminalFailure(q) ==
    \/ Handles(q, Rejected(q.url, SessionExpired))
    \/ Handles(q, Rejected(q.url, NoRefreshToken))

\* C17: a terminal session failure leaves the store unauthenticated, with
\* every protected route redirecting to /login; while the store is
\* unauthenticated no protected view is rendered; and the store becomes
\* authenticated again only when the caller of a successful login or
\* registration stores its response (a page load puts back the session that
\* was persisted, which a terminal failure has reset as well).
C17_FailureForcesLogin ==
    /\ [][\A q \in Calls :
             TerminalFailure(q) =>
                /\ ~auth'.isAuthenticated
                /\ \A p \in ProtectedPaths : App(auth', p) = Redirect(LoginPath)
         ]_vars
    /\ [](~auth.isAuthenticated =>
             \A p \in ProtectedPaths : App(auth, p).kind # "view")
    /\ [][ (~auth.isAuthenticated /\ auth'.isAuthenticated) =>
             \/ \E q \in Calls : /\ q.pc = "resolved"
                                 /\ q.url \in {LoginUrl, RegisterUrl}
                                 /\ auth'.accessToken = q.data
                                 /\ Settle(q)
             \/ /\ boot = "rehydrating"
                /\ persisted.ok
                /\ auth' = persisted.state
         ]_vars
    /\ [][\A q \in Calls : TerminalFailure(q) => persisted' = Stored(auth')]_vars

\* C17 witness: a call has just failed for want of a refresh token or with
\* the session-expired error, and the protected routes redirect to /login.
C17_Witness ==
    /\ \E q \in Calls : q.pc = "rejected" /\ q.msg \in {SessionExpired, NoRefreshToken}
    /\ ~auth.isAuthenticated
    /\ \A p \in ProtectedPaths : App(auth, p) = Redirect(LoginPath)

\* Payloads of setAuthData and of setError.
AuthPayloads ==
    { [accessToken |-> a, refreshToken |-> r, user |-> u] :
        a \in Tokens, r \in Tokens \cup {NoToken}, u \in Users }

Messages ==
    {RequestFailed, NoRefreshToken, SessionExpired, NoAccessToken}
        \cup { serverMessage(s) : s \in {401, 500} }

\* C18: resetAuth applied to any state of the slice yields the initial state
\* (unauthenticated, tokens, user, role and error absent, loading false), so
\* applying it twice yields what applying it once yields.
C18_ResetIsInitialAndIdempotent ==
    /\ resetAuth(auth) = initialState
    /\ resetAuth(resetAuth(auth)) = resetAuth(auth)
    /\ ~initialState.isAuthenticated /\ ~initialState.loading
    /\ initialState.accessToken = NoToken /\ initialState.refreshToken = NoToken
    /\ initialState.user = Null /\ initialState.userRole = Null
    /\ initialState.error = Null

\* C18 witness: a state with a session and an error in it, which resetAuth
\* takes to the initial state.
C18_Witness ==
    /\ auth.isAuthenticated
    /\ auth.accessToken # NoToken /\ auth.refreshToken # NoToken
    /\ auth.user # Null /\ auth.userRole # Null /\ auth.error # Null
    /\ resetAuth(auth) = initialState

\* C19: setError(message) stores the message and leaves isAuthenticated, the
\* tokens, the user and the role as they are; clearError changes nothing but
\* the error, which becomes absent.
C19_ErrorReducersKeepSession ==
    /\ \A m \in Messages :
          LET t == setError(auth, m)
          IN /\ t.error = m
             /\ t.isAuthenticated = auth.isAuthenticated
             /\ t.accessToken = auth.accessToken
             /\ t.refreshToken = auth.refreshToken
             /\ t.user = auth.user
             /\ t.userRole = auth.userRole
    /\ clearError(auth) = [auth EXCEPT !.error = Null]

\* C19 witness: an authenticated state with an error stored, so that every
\* field the two reducers could disturb is set.
C19_Witness ==
    /\ auth.isAuthenticated
    /\ auth.accessToken # NoToken /\ auth.refreshToken # NoToken
    /\ auth.user # Null
    /\ auth.error = SessionExpired
    /\ clearError(auth) # auth
    /\ setError(auth, RequestFailed) # auth

\* C20: setAuthData from any state yields isAuthenticated true, the given
\* access token and user, userRole the user's role, no error, loading false,
\* and as refresh token the given one if the payload has one, else the one
\* stored before.
C20_SetAuthDataStoresSession ==
    \A p \in AuthPayloads :
        LET t == setAuthData(auth, p)
        IN /\ t.isAuthenticated
           /\ t.accessToken = p.accessToken
           /\ t.user = p.user
           /\ t.userRole = role(p.user)
           /\ t.error = Null
           /\ ~t.loading
           /\ p.refreshToken # NoToken => t.refreshToken = p.refreshToken
           /\ p.refreshToken = NoToken => t.refreshToken = auth.refreshToken

\* C20 witness: the store after a payload without refresh token on an empty
\* store (a registration): authenticated, no refresh token.
C20_Witness ==
    /\ auth.isAuthenticated
    /\ auth.accessToken # NoToken
    /\ auth.refreshToken = NoToken
    /\ auth.user # Null
    /\ auth.userRole = role(auth.user)
    /\ auth.error = Null
    /\ ~auth.loading

PutOnWire(q2) ==
    /\ q2.pc = "sent"
    /\ BagIn(q2, req')
    /\ CopiesIn(q2, req') > CopiesIn(q2, req)

\* C22: every request put on the wire, first attempt or replay, carries as
\* bearer token the access token the store holds at that moment, whatever
\* header the request had before; so the only token ever sent is the store's
\* current one, never one that a refresh has replaced.
C22_SendsCurrentToken ==
    [][ \A q2 \in BagToSet(req') :
            PutOnWire(q2) =>
                /\ auth'.accessToken # NoToken => q2.authz = auth'.accessToken
                /\ q2.authz # NoToken => q2.authz = auth'.accessToken
      ]_vars

\* C22 witness: a replay on the wire carries the refreshed token the store
\* holds, while another call still has the replaced token in its headers.
C22_Witness ==
    \E q, c \in Calls :
        /\ q.pc = "sent" /\ q.sends = 2
        /\ q.authz = auth.accessToken
        /\ c.pc = "refreshing"
        /\ c.authz # NoToken
        /\ c.authz # auth.accessToken

\* C23: checkAuth is dispatched only after the rehydration has completed, and
\* the state it inspects is the rehydrated session: the slice that
\* localStorage holds, or the empty session when nothing readable is there.
C23_CheckAuthAfterRehydration ==
    [][ ( boot # "pending" /\ boot' = "pending" )
        => /\ boot = "start"
           /\ auth = rehydrate(persisted)
           /\ payload' = checkAuth(checkAuthPending(rehydrate(persisted)))
      ]_vars

\* C23 witness: a page load after a login; the session was rehydrated and the
\* check, now under way, has read it.
C23_Witness ==
    /\ boot = "pending"
    /\ issued > 0
    /\ persisted.ok
    /\ persisted.state = auth
    /\ auth.accessToken # NoToken
    /\ payload.accessToken = auth.accessToken
    /\ payload.user = auth.user

\* C24: each realtime series (heartRate, bloodPressure, bloodOxygen,
\* temperature) holds at most 20 points in every reachable state of the
\* healthData slice.
C24_SeriesAtMostWindow ==
    \A t \in Types : Len(healthData.realtimeData[t]) <= RealtimeWindow

\* C25: in every reachable state of the auth store, userRole is the role of
\* the stored user when there is one and absent when there is none.
C25_RoleMatchesUser ==
    auth.userRole = role(auth.user)

\* C26: in every reachable state of the auth store, isAuthenticated = false
\* implies that access token, refresh token, user and userRole are absent.
C26_UnauthenticatedHoldsNothing ==
    ~auth.isAuthenticated =>
        /\ auth.accessToken = NoToken
        /\ auth.refreshToken = NoToken
        /\ auth.user = Null
        /\ auth.userRole = Null

\* C27: the tokens the store holds were issued for the user it holds: a token
\* pair obtained with one user's refresh token is never in the store while
\* another user is stored.
C27_TokensBelongToUser ==
    auth.user # Null =>
        /\ auth.accessToken # NoToken => auth.accessToken.u = auth.user
        /\ auth.refreshToken # NoToken => auth.refreshToken.u = auth.user

\* C28: when the request replayed after a successful refresh receives 401
\* again, the handler makes no further refresh call, dispatches nothing (the
\* store, with the refreshed tokens, stays as it is) and rejects the call with
\* the server's message, or the generic fallback when there is none.
C28_ReplayUnauthorizedRejects ==
    [][\A q \in Calls, resp \in ErrorResponses :
          ( /\ q.retry
            /\ resp.status = 401
            /\ RespondError(q, resp) )
          => /\ auth' = auth
             /\ issued' = issued
             /\ req' = Swap(q, Rejected(q.url, IF resp.message # Null
                                        THEN resp.message ELSE RequestFailed))
             /\ \A c \in BagToSet(req') : c.pc = "refreshing" => BagIn(c, req)
      ]_vars

\* C28 witness: a replayed call was rejected with the message of the 401
\* response, and the store still holds the session with the refreshed tokens.
C28_Witness ==
    /\ auth.isAuthenticated
    /\ auth.accessToken.n > 1
    /\ auth.refreshToken = auth.accessToken
    /\ \E q \in Calls :
           q.url = ProtectedUrl /\ q.pc = "rejected" /\ q.msg = serverMessage(401)

\* C29: in the appointments slice loading is true exactly when at least one
\* of the slice's thunks is pending.
C29_LoadingIffPending ==
    appointments.loading <=> Pending("appointments") > 0

\* C30: once the app-start check has completed, /login, /register and /
\* redirect an authenticated user to /dashboard, no location shows them the
\* login or the sign-up form, and / redirects everyone else to /login.
C30_AuthenticatedSkipsForms ==
    boot = "done" =>
        /\ auth.isAuthenticated =>
              /\ \A p \in {LoginPath, RegisterPath, RootPath} :
                     App(auth, p) = Redirect(DashboardPath)
              /\ \A p \in Paths :
                     App(auth, p) \notin {View(LoginPath), View(RegisterPath)}
        /\ ~auth.isAuthenticated => App(auth, RootPath) = Redirect(LoginPath)

\* C30 witness: the check is done, a user is signed in, and /login sends them
\* on to /dashboard, from where they reach their own dashboard.
C30_Witness ==
    /\ boot = "done"
    /\ auth.isAuthenticated
    /\ App(auth, LoginPath) = Redirect(DashboardPath)
    /\ App(auth, RegisterPath) = Redirect(DashboardPath)
    /\ Land(auth.loading, auth.isAuthenticated, auth.userRole, role(auth.user),
            LoginPath) = View(dashboardOf(auth.userRole))

====
